---- MODULE Spec2Model ----
(***************************************************************************)
(* A state-machine model of leafmap.plotlymap.Map: the trace list          *)
(* (self.data), the layout of the wrapped figure widget (mapbox style,     *)
(* center, zoom, tile layers, access token, modebar lists) and the         *)
(* methods that change them.  Every method is one atomic action: the       *)
(* module is single-threaded call-and-return.                              *)
(***************************************************************************)
EXTENDS Integers, Sequences, FiniteSets, TLC

VARIABLES
    self,             \* the Map object: its trace list and its layout
    plotly_basemaps,  \* module-level catalog, computed once at import
    MAPBOX_TOKEN,     \* os.environ.get("MAPBOX_TOKEN")
    last,             \* the most recent call: op, arguments, outcome, sub-calls
    pre,              \* the Map object as it was when the most recent call began
    before_add,       \* the trace list as it was before the call, when the
                      \* most recent call was add_layer(layer, name=<str>)
    ncalls            \* how many method calls have been made

vars == <<self, plotly_basemaps, MAPBOX_TOKEN, last, pre, before_add, ncalls>>

\* Number of method calls explored on one Map.
MaxCalls == 3

----------------------------------------------------------------------------
\* Python values that the code inspects with isinstance / "is None".

PyNone == <<"NoneType">>

PyStr(s) == <<"str", s>>

PyInt(i) == <<"int", i>>

PyList(xs) == <<"list", xs>>

PyTuple(xs) == <<"tuple", xs>>

isinstance(v, t) == v[1] = t

\* Outcome of a method body: the object afterwards, the exception raised
\* ("" for a normal return), its message as a sequence of string pieces, and
\* the state-relevant calls made, in order.
Return(s, log) == [self |-> s, err |-> "", msg |-> <<>>, log |-> log]

Raise(s, e, msg, log) == [self |-> s, err |-> e, msg |-> msg, log |-> log]

----------------------------------------------------------------------------
\* Traces.

\* The trace self.add_scattermapbox() creates with no arguments.
Placeholder == [type |-> "scattermapbox", name |-> PyNone, npoints |-> 0]

\* go.FigureWidget.add_trace: the trace goes to the end of self.data.
add_trace(s, trace) == [s EXCEPT !.data = Append(@, trace)]

\* ",".join(keys)
RECURSIVE Join(_)
Join(keys) ==
    IF keys = <<>> THEN ""
    ELSE IF Len(keys) = 1 THEN keys[1]
    ELSE keys[1] \o "," \o Join(Tail(keys))

\* The keys of the catalog, in dictionary order.
Keys(catalog) == [i \in 1..Len(catalog) |-> catalog[i].key]

\* basemap in plotly_basemaps
HasKey(catalog, k) == \E i \in 1..Len(catalog) : catalog[i].key = k

\* plotly_basemaps[basemap]
Lookup(catalog, k) ==
    catalog[CHOOSE i \in 1..Len(catalog) : catalog[i].key = k].layer

----------------------------------------------------------------------------
\* Map.__init__ with its default arguments and no keyword arguments for the
\* widget base class: one placeholder trace, then the layout update.
Map__init__ ==
    [data           |-> <<Placeholder>>,
     layers         |-> <<>>,
     style          |-> "open-street-map",
     center         |-> [lat |-> 20, lon |-> 0],
     zoom           |-> 1,
     accesstoken    |-> PyNone,
     modebar_add    |-> PyNone,
     modebar_remove |-> PyNone]

\* The layer descriptor add_tile_layer builds. Opacity is in percent.
TileLayer(url, name, attribution, opacity) ==
    [below             |-> "traces",
     sourcetype        |-> "raster",
     sourceattribution |-> attribution,
     source            |-> <<url>>,
     opacity           |-> opacity,
     name              |-> name]

add_controls_unchecked(s, controls) ==
    Return([s EXCEPT !.modebar_add = controls], <<"update_layout">>)

add_controls(s, controls) ==
    IF isinstance(controls, "str")
    THEN Return([s EXCEPT !.modebar_add = PyList(<<controls[2]>>)],
                <<"update_layout">>)
    ELSE IF ~isinstance(controls, "list")
    THEN Raise(s, "ValueError",
               <<"Controls must be a string or a list of strings. See https://bit.ly/33Tmqxr">>,
               <<>>)
    ELSE Return([s EXCEPT !.modebar_add = controls], <<"update_layout">>)

remove_controls(s, controls) ==
    IF isinstance(controls, "str")
    THEN Return([s EXCEPT !.modebar_remove = PyList(<<controls[2]>>)],
                <<"update_layout">>)
    ELSE IF ~isinstance(controls, "list")
    THEN Raise(s, "ValueError",
               <<"Controls must be a string or a list of strings. See https://bit.ly/3Jk7wkb">>,
               <<>>)
    ELSE Return([s EXCEPT !.modebar_remove = controls], <<"update_layout">>)

set_center_falsy_zoom(s, lat, lon, zoom) ==
    [s EXCEPT !.center = [lat |-> lat, lon |-> lon],
              !.zoom = IF zoom /= PyNone /\ zoom[2] /= 0 THEN zoom[2] ELSE s.zoom]

set_center(s, lat, lon, zoom) ==
    [s EXCEPT !.center = [lat |-> lat, lon |-> lon],
              !.zoom = IF zoom /= PyNone THEN zoom[2] ELSE s.zoom]

add_basemap_update_first(s, basemap) ==
    IF ~HasKey(plotly_basemaps, basemap)
    THEN Raise([s EXCEPT !.layers = Append(@, TileLayer("", basemap, "", 100))], "ValueError",
               <<"Basemap ", basemap, " not found. Choose from ",
                 Join(Keys(plotly_basemaps))>>,
               <<"update_layout">>)
    ELSE Return([s EXCEPT !.layers = Append(@, Lookup(plotly_basemaps, basemap))],
                <<"update_layout">>)

add_basemap(s, basemap) ==
    IF ~HasKey(plotly_basemaps, basemap)
    THEN Raise(s, "ValueError",
               <<"Basemap ", basemap, " not found. Choose from ",
                 Join(Keys(plotly_basemaps))>>,
               <<>>)
    ELSE Return([s EXCEPT !.layers = Append(@, Lookup(plotly_basemaps, basemap))],
                <<"update_layout">>)

add_mapbox_layer_keep_layers(s, style, access_token) ==
    LET token == IF access_token = PyNone THEN MAPBOX_TOKEN ELSE access_token
    IN  Return([s EXCEPT !.style = style, !.accesstoken = token],
               <<"update_layout">>)

add_mapbox_layer(s, style, access_token) ==
    LET token == IF access_token = PyNone THEN MAPBOX_TOKEN ELSE access_token
    IN  Return([s EXCEPT !.style = style, !.layers = <<>>, !.accesstoken = token],
               <<"update_layout">>)

add_layer(s, layer, name) ==
    LET named == IF isinstance(name, "str")
                 THEN [layer EXCEPT !.name = name] ELSE layer
    IN  Return(add_trace(s, named), <<"add_trace">>)

remove_layer_unnamed_too(s, name) ==
    Return([s EXCEPT !.data = SelectSeq(@, LAMBDA layer :
                                 layer.name /= name /\ layer.name /= PyNone)],
           <<"data">>)

remove_layer(s, name) ==
    Return([s EXCEPT !.data = SelectSeq(@, LAMBDA layer : layer.name /= name)],
           <<"data">>)

clear_layers_keep_tail(s, clear_basemap) ==
    IF clear_basemap
    THEN Return([s EXCEPT !.data = <<>>], <<"data">>)
    ELSE IF Len(s.data) > 1
    THEN Return([s EXCEPT !.data = Tail(@)], <<"data">>)
    ELSE Return(s, <<>>)

clear_layers(s, clear_basemap) ==
    IF clear_basemap
    THEN Return([s EXCEPT !.data = <<>>], <<"data">>)
    ELSE IF Len(s.data) > 1
    THEN Return([s EXCEPT !.data = SubSeq(@, 1, 1)], <<"data">>)
    ELSE Return(s, <<>>)

add_tile_layer_prepend(s, url, name, attribution, opacity) ==
    [s EXCEPT !.layers = <<TileLayer(url, name, attribution, opacity)>> \o @]

add_tile_layer(s, url, name, attribution, opacity) ==
    [s EXCEPT !.layers = Append(@, TileLayer(url, name, attribution, opacity))]

\* tile and center are the remote endpoint's answers to cog_tile and
\* cog_center: [ok, val], ok = FALSE when the call raises; center.val is
\* (lon, lat).
add_cog_layer_eager(s, name, attribution, opacity, tile, center) ==
    IF ~tile.ok
    THEN Raise(s, "HTTPError", <<>>, <<"cog_tile">>)
    ELSE LET s1 == add_tile_layer(s, tile.val, name, attribution, opacity)
         IN  IF ~center.ok
             THEN Raise(s1, "HTTPError", <<>>,
                        <<"cog_tile", "add_tile_layer", "cog_center">>)
             ELSE Return(set_center(s1, center.val[2], center.val[1], PyInt(10)),
                         <<"cog_tile", "add_tile_layer", "cog_center", "set_center">>)

add_cog_layer(s, name, attribution, opacity, tile, center) ==
    IF ~tile.ok
    THEN Raise(s, "HTTPError", <<>>, <<"cog_tile">>)
    ELSE IF ~center.ok
    THEN Raise(s, "HTTPError", <<>>, <<"cog_tile", "cog_center">>)
    ELSE LET s1 == add_tile_layer(s, tile.val, name, attribution, opacity)
         IN  Return(set_center(s1, center.val[2], center.val[1], PyInt(10)),
                    <<"cog_tile", "cog_center", "add_tile_layer", "set_center">>)

\* The same with the answers of stac_tile and stac_center.
add_stac_layer(s, name, attribution, opacity, tile, center) ==
    IF ~tile.ok
    THEN Raise(s, "HTTPError", <<>>, <<"stac_tile">>)
    ELSE IF ~center.ok
    THEN Raise(s, "HTTPError", <<>>, <<"stac_tile", "stac_center">>)
    ELSE LET s1 == add_tile_layer(s, tile.val, name, attribution, opacity)
         IN  Return(set_center(s1, center.val[2], center.val[1], PyInt(10)),
                    <<"stac_tile", "stac_center", "add_tile_layer", "set_center">>)

\* 1000 random points, no name.
add_scatter_plot_demo(s) ==
    Return(add_trace(s, [type |-> "scattermapbox", name |-> PyNone,
                         npoints |-> 1000]),
           <<"add_scattermapbox">>)

\* data is the Python argument; table is what reading it yields:
\* "ok", "unreadable" (pd.read_csv raises) or "nocolumn" (df[...] raises).
add_heatmap(s, data, name, table) ==
    IF ~isinstance(data, "str") /\ ~isinstance(data, "DataFrame")
    THEN Raise(s, "ValueError", <<"data must be a DataFrame or a file path.">>, <<>>)
    ELSE IF isinstance(data, "str") /\ table = "unreadable"
    THEN Raise(s, "IOError", <<>>, <<"read_csv">>)
    ELSE IF table = "nocolumn"
    THEN Raise(s, "KeyError", <<>>, <<>>)
    ELSE Return(add_trace(s, [type |-> "densitymapbox", name |-> PyStr(name),
                              npoints |-> 23000]),
                <<"add_trace">>)

Earthquake == [type |-> "densitymapbox", name |-> PyStr("Earthquake"), npoints |-> 23000]

add_heatmap_demo_trace_first(s, table) ==
    IF table = "unreadable"
    THEN Raise(s, "IOError", <<>>, <<"read_csv">>)
    ELSE LET s1 == add_trace(s, Earthquake)
             b  == add_basemap(s1, "Stamen.Terrain")
         IN  IF b.err /= ""
             THEN [b EXCEPT !.log = <<"read_csv", "add_trace", "add_basemap">>]
             ELSE Return(b.self, <<"read_csv", "add_trace", "add_basemap">>)

add_heatmap_demo(s, table) ==
    IF table = "unreadable"
    THEN Raise(s, "IOError", <<>>, <<"read_csv">>)
    ELSE LET b == add_basemap(s, "Stamen.Terrain")
         IN  IF b.err /= ""
             THEN [b EXCEPT !.log = <<"read_csv", "add_basemap">>]
             ELSE Return(add_trace(b.self, Earthquake),
                         <<"read_csv", "add_basemap", "add_trace">>)

----------------------------------------------------------------------------
\* Arguments and environment answers the calls are explored with.

\* What xyz_to_plotly() may return: a dictionary from basemap names to layer
\* descriptors.  Its contents depend on the installed tile-provider list, so
\* both a catalog that has "Stamen.Terrain" and one that lacks it are explored.
BasemapLayer(key, url) ==
    [below             |-> "traces",
     sourcetype        |-> "raster",
     sourceattribution |-> key,
     source            |-> <<url>>,
     name              |-> key]

Catalogs ==
    { << [key |-> "ROADMAP", layer |-> BasemapLayer("ROADMAP", "https://g/r/{z}/{x}/{y}")],
         [key |-> "Stamen.Terrain",
          layer |-> BasemapLayer("Stamen.Terrain", "https://s/t/{z}/{x}/{y}")] >>,
      << [key |-> "ROADMAP", layer |-> BasemapLayer("ROADMAP", "https://g/r/{z}/{x}/{y}")] >> }

EnvTokens == {PyNone, PyStr("pk.env")}

ControlArgs ==
    {PyStr("drawline"), PyList(<<"drawline">>), PyList(<<"drawrect", "eraseshape">>),
     PyTuple(<<"drawline">>), PyNone}

BasemapArgs == {"ROADMAP", "Stamen.Terrain", "Esri.Nope"}

ZoomArgs == {PyNone, PyInt(0), PyInt(5)}

TokenArgs == {PyNone, PyStr("pk.arg")}

LayerArgs ==
    {[type |-> "choroplethmapbox", name |-> PyNone, npoints |-> 3],
     [type |-> "choroplethmapbox", name |-> PyStr("A"), npoints |-> 3]}

NameStrings == {"A", "Earthquake"}

OpacityArgs == {100, 50}

TileAnswers == {[ok |-> FALSE, val |-> ""], [ok |-> TRUE, val |-> "https://t/{z}/{x}/{y}"]}

CenterAnswers == {[ok |-> FALSE, val |-> <<0, 0>>], [ok |-> TRUE, val |-> <<5, 7>>]}

HeatmapData == {PyStr("quakes.csv"), <<"DataFrame", "df">>, PyInt(0)}

Tables == {"ok", "unreadable", "nocolumn"}

----------------------------------------------------------------------------
\* One method call on the Map: r is the outcome of the method body.
Call(op, arg, r) ==
    /\ ncalls < MaxCalls
    /\ self' = r.self
    /\ pre' = self
    /\ last' = [op |-> op, arg |-> arg, err |-> r.err, msg |-> r.msg, log |-> r.log]
    /\ before_add' = IF op = "add_layer" /\ isinstance(arg[2], "str")
                     THEN [valid |-> TRUE, name |-> arg[2], data |-> self.data]
                     ELSE [valid |-> FALSE, name |-> PyNone, data |-> <<>>]
    /\ ncalls' = ncalls + 1
    /\ UNCHANGED <<plotly_basemaps, MAPBOX_TOKEN>>

Init ==
    /\ self = Map__init__
    /\ plotly_basemaps \in Catalogs
    /\ MAPBOX_TOKEN \in EnvTokens
    /\ pre = Map__init__
    /\ last = [op |-> "__init__", arg |-> <<>>, err |-> "", msg |-> <<>>,
               log |-> <<"add_scattermapbox", "update_layout">>]
    /\ before_add = [valid |-> FALSE, name |-> PyNone, data |-> <<>>]
    /\ ncalls = 0

AddControls ==
    \E controls \in ControlArgs :
        Call("add_controls", <<controls>>, add_controls(self, controls))

RemoveControls ==
    \E controls \in ControlArgs :
        Call("remove_controls", <<controls>>, remove_controls(self, controls))

SetCenter ==
    \E zoom \in ZoomArgs :
        Call("set_center", <<40, -100, zoom>>,
             Return(set_center(self, 40, -100, zoom), <<"update_layout">>))

AddBasemap ==
    \E basemap \in BasemapArgs :
        Call("add_basemap", <<basemap>>, add_basemap(self, basemap))

AddMapboxLayer ==
    \E access_token \in TokenArgs :
        Call("add_mapbox_layer", <<"streets", access_token>>,
             add_mapbox_layer(self, "streets", access_token))

StrNames == {PyStr(n) : n \in NameStrings}

AddLayerWith(names) ==
    \E layer \in LayerArgs, name \in names :
        Call("add_layer", <<layer, name>>, add_layer(self, layer, name))

AddLayer == AddLayerWith({PyNone} \cup StrNames)

RemoveLayerWith(names) ==
    \E name \in names :
        Call("remove_layer", <<name>>, remove_layer(self, name))

RemoveLayer == RemoveLayerWith({PyNone} \cup StrNames)

ClearLayersWith(flags) ==
    \E clear_basemap \in flags :
        Call("clear_layers", <<clear_basemap>>, clear_layers(self, clear_basemap))

ClearLayers == ClearLayersWith(BOOLEAN)

AddTileLayer ==
    \E opacity \in OpacityArgs :
        Call("add_tile_layer", <<"https://u/{z}/{x}/{y}", "TileLayer", "", opacity>>,
             Return(add_tile_layer(self, "https://u/{z}/{x}/{y}", "TileLayer", "", opacity),
                    <<"update_layout">>))

AddCogLayer ==
    \E tile \in TileAnswers, center \in CenterAnswers :
        Call("add_cog_layer", <<"Untitled", "", 100, tile, center>>,
             add_cog_layer(self, "Untitled", "", 100, tile, center))

AddStacLayer ==
    \E tile \in TileAnswers, center \in CenterAnswers :
        Call("add_stac_layer", <<"STAC Layer", "", 100, tile, center>>,
             add_stac_layer(self, "STAC Layer", "", 100, tile, center))

AddScatterPlotDemo ==
    Call("add_scatter_plot_demo", <<>>, add_scatter_plot_demo(self))

AddHeatmap ==
    \E data \in HeatmapData, table \in Tables :
        Call("add_heatmap", <<data, "Heat map", table>>,
             add_heatmap(self, data, "Heat map", table))

AddHeatmapDemo ==
    \E table \in {"ok", "unreadable"} :
        Call("add_heatmap_demo", <<table>>, add_heatmap_demo(self, table))

Next ==
    \/ AddControls
    \/ RemoveControls
    \/ SetCenter
    \/ AddBasemap
    \/ AddMapboxLayer
    \/ AddLayer
    \/ RemoveLayer
    \/ ClearLayers
    \/ AddTileLayer
    \/ AddCogLayer
    \/ AddStacLayer
    \/ AddScatterPlotDemo
    \/ AddHeatmap
    \/ AddHeatmapDemo

Spec == Init /\ [][Next]_vars

\* The calls C9 speaks of: add_layer and remove_layer with string names,
\* add_heatmap, the demo helpers and clear_layers(clear_basemap=False).
NextNamed ==
    \/ AddLayerWith(StrNames)
    \/ RemoveLayerWith(StrNames)
    \/ ClearLayersWith({FALSE})
    \/ AddScatterPlotDemo
    \/ AddHeatmap
    \/ AddHeatmapDemo

SpecNamed == Init /\ [][NextNamed]_vars

----------------------------------------------------------------------------
\* Properties.  In every state, pre is the object before the most recent
\* call, last is that call and self is the object after it.

Viewport(s) == <<s.center, s.zoom>>

IsPrefix(xs, ys) == Len(xs) <= Len(ys) /\ SubSeq(ys, 1, Len(xs)) = xs

\* C1: add_layer(layer, name=n) with a string n followed by remove_layer(n)
\* leaves the trace list as it was before the add_layer call.
C1_AddThenRemoveRestores ==
    [][(/\ before_add.valid
        /\ last'.op = "remove_layer"
        /\ last'.arg[1] = before_add.name)
       => self'.data = before_add.data]_vars

\* C2: add_controls / remove_controls with a value that is neither a string
\* nor a list raise ValueError before any layout update and change nothing;
\* with a string s they do what they do with the one-element list [s].
C2_ControlsTypeCheck ==
    last.op \in {"add_controls", "remove_controls"} =>
        LET controls == last.arg[1]
            field    == IF last.op = "add_controls" THEN "modebar_add"
                        ELSE "modebar_remove"
        IN  /\ (~isinstance(controls, "str") /\ ~isinstance(controls, "list")) =>
                  /\ last.err = "ValueError"
                  /\ last.log = <<>>
                  /\ self = pre
            /\ isinstance(controls, "list") =>
                  /\ last.err = ""
                  /\ self = [pre EXCEPT ![field] = controls]
            /\ isinstance(controls, "str") =>
                  /\ last.err = ""
                  /\ self = [pre EXCEPT ![field] = PyList(<<controls[2]>>)]
                  /\ self = (IF last.op = "add_controls"
                             THEN add_controls(pre, PyList(<<controls[2]>>))
                             ELSE remove_controls(pre, PyList(<<controls[2]>>))).self

C2_Witness ==
    /\ last.op = "remove_controls"
    /\ last.arg[1] = PyTuple(<<"drawline">>)
    /\ last.err = "ValueError"
    /\ pre.modebar_remove = PyList(<<"drawline">>)
    /\ Len(pre.data) = 2

\* C3: add_basemap with a name that is no key of plotly_basemaps raises a
\* ValueError whose message contains the name and leaves the tile layers and
\* the traces unchanged; with a known name it raises nothing.
C3_UnknownBasemapRaises ==
    last.op = "add_basemap" =>
        LET basemap == last.arg[1]
        IN  IF \A i \in 1..Len(plotly_basemaps) : plotly_basemaps[i].key /= basemap
            THEN /\ last.err = "ValueError"
                 /\ \E i \in 1..Len(last.msg) : last.msg[i] = basemap
                 /\ self.layers = pre.layers
                 /\ self.data = pre.data
            ELSE last.err = ""

C3_Witness ==
    /\ last.op = "add_basemap"
    /\ last.arg[1] = "Stamen.Terrain"
    /\ last.err = "ValueError"
    /\ Len(pre.layers) = 2

\* C4: a successful add_scatter_plot_demo or add_heatmap_demo adds exactly one
\* trace after the traces already present; add_heatmap_demo also appends
\* exactly one tile layer, the Stamen.Terrain basemap, and adds no trace when
\* that basemap lookup fails.
C4_DemoAddsOneTrace ==
    /\ (last.op \in {"add_scatter_plot_demo", "add_heatmap_demo"} /\ last.err = "") =>
          /\ Len(self.data) = Len(pre.data) + 1
          /\ IsPrefix(pre.data, self.data)
    /\ (last.op = "add_heatmap_demo" /\ last.err = "") =>
          /\ Len(self.layers) = Len(pre.layers) + 1
          /\ IsPrefix(pre.layers, self.layers)
          /\ \E i \in 1..Len(plotly_basemaps) :
                /\ plotly_basemaps[i].key = "Stamen.Terrain"
                /\ self.layers[Len(self.layers)] = plotly_basemaps[i].layer
    /\ (/\ last.op = "add_heatmap_demo"
        /\ \A i \in 1..Len(plotly_basemaps) : plotly_basemaps[i].key /= "Stamen.Terrain") =>
          /\ last.err /= ""
          /\ self.data = pre.data

C4_Witness ==
    /\ last.op = "add_heatmap_demo"
    /\ last.err = ""
    /\ Len(pre.data) = 3
    /\ Len(pre.layers) = 1

\* C5: add_tile_layer and a successful add_basemap append exactly one layer
\* descriptor at the end of layout.mapbox.layers and change neither the
\* traces nor the viewport.
C5_TileLayerAppended ==
    /\ last.op = "add_tile_layer" =>
          /\ self.layers = pre.layers \o
                << [below             |-> "traces",
                    sourcetype        |-> "raster",
                    sourceattribution |-> last.arg[3],
                    source            |-> <<last.arg[1]>>,
                    opacity           |-> last.arg[4],
                    name              |-> last.arg[2]] >>
          /\ self.data = pre.data
          /\ Viewport(self) = Viewport(pre)
    /\ (last.op = "add_basemap" /\ last.err = "") =>
          /\ Len(self.layers) = Len(pre.layers) + 1
          /\ IsPrefix(pre.layers, self.layers)
          /\ \E i \in 1..Len(plotly_basemaps) :
                /\ plotly_basemaps[i].key = last.arg[1]
                /\ self.layers[Len(self.layers)] = plotly_basemaps[i].layer
          /\ self.data = pre.data
          /\ Viewport(self) = Viewport(pre)

C5_Witness ==
    /\ last.op = "add_tile_layer"
    /\ last.arg[4] = 50
    /\ Len(pre.layers) = 2
    /\ Len(pre.layers[1].source) = 1
    /\ pre.layers[1].name = "ROADMAP"

\* C6: clear_layers(clear_basemap=True) empties the trace list;
\* clear_layers(clear_basemap=False) leaves exactly the first trace that was
\* there (and nothing changes when there were zero or one traces).  Neither
\* changes the tile layers or the viewport.
C6_ClearLayers ==
    last.op = "clear_layers" =>
        /\ last.err = ""
        /\ last.arg[1] = TRUE => self.data = <<>>
        /\ last.arg[1] = FALSE =>
              self.data = IF Len(pre.data) <= 1 THEN pre.data ELSE <<pre.data[1]>>
        /\ self.layers = pre.layers
        /\ Viewport(self) = Viewport(pre)

C6_Witness ==
    /\ last.op = "clear_layers"
    /\ last.arg[1] = FALSE
    /\ Len(pre.data) = 3
    /\ Len(pre.layers) = 1
    /\ self.data = <<Placeholder>>

\* C7: set_center(lat, lon, zoom) sets the center to (lat, lon); the zoom
\* stays what it was when zoom is None and becomes zoom otherwise; traces and
\* tile layers are unchanged.
C7_SetCenter ==
    last.op = "set_center" =>
        /\ last.err = ""
        /\ self.center = [lat |-> last.arg[1], lon |-> last.arg[2]]
        /\ self.zoom = IF last.arg[3] = PyNone THEN pre.zoom ELSE last.arg[3][2]
        /\ self.data = pre.data
        /\ self.layers = pre.layers

C7_Witness ==
    /\ last.op = "set_center"
    /\ last.arg[3] = PyNone
    /\ pre.zoom = 10
    /\ pre.center = [lat |-> 7, lon |-> 5]
    /\ self.zoom = 10

\* C8: add_cog_layer and add_stac_layer fetch the tile URL and the center
\* before they change the map: when either remote call fails the error
\* propagates and the object is unchanged; when both succeed exactly one tile
\* layer is appended and then the viewport is set to lat = center[1],
\* lon = center[0], zoom 10, the layer being added before the center is set.
C8_RemoteLayerNoPartialUpdate ==
    last.op \in {"add_cog_layer", "add_stac_layer"} =>
        LET tile   == last.arg[4]
            center == last.arg[5]
            kind   == IF last.op = "add_cog_layer" THEN "cog" ELSE "stac"
        IN  IF ~tile.ok \/ ~center.ok
            THEN /\ last.err /= ""
                 /\ self = pre
                 /\ \A i \in 1..Len(last.log) :
                        last.log[i] \notin {"add_tile_layer", "set_center"}
            ELSE /\ last.err = ""
                 /\ self.layers = pre.layers \o
                       << [below             |-> "traces",
                           sourcetype        |-> "raster",
                           sourceattribution |-> last.arg[2],
                           source            |-> <<tile.val>>,
                           opacity           |-> last.arg[3],
                           name              |-> last.arg[1]] >>
                 /\ self.center = [lat |-> center.val[2], lon |-> center.val[1]]
                 /\ self.zoom = 10
                 /\ self.data = pre.data
                 /\ last.log = <<kind \o "_tile", kind \o "_center",
                                 "add_tile_layer", "set_center">>

C8_Witness ==
    /\ last.op = "add_cog_layer"
    /\ last.arg[4].ok
    /\ ~last.arg[5].ok
    /\ last.err = "HTTPError"
    /\ Len(pre.layers) = 1
    /\ pre.zoom = 5

\* C9: a new Map holds exactly one trace, the unnamed placeholder; after any
\* sequence of add_layer / remove_layer with string names, add_heatmap, the
\* demo helpers and clear_layers(clear_basemap=False) the placeholder is
\* still the first trace, and remove_layer(name) has removed exactly the
\* traces whose name equals name.
C9_PlaceholderStays ==
    /\ ncalls = 0 => self.data = <<Placeholder>>
    /\ Len(self.data) >= 1
    /\ self.data[1] = Placeholder
    /\ last.op = "remove_layer" =>
          /\ self.data = SelectSeq(pre.data, LAMBDA t : t.name /= last.arg[1])
          /\ \A i \in 1..Len(pre.data) :
                pre.data[i].name /= last.arg[1] =>
                    \E j \in 1..Len(self.data) : self.data[j] = pre.data[i]

C9_Witness ==
    /\ last.op = "remove_layer"
    /\ last.arg[1] = PyStr("Earthquake")
    /\ Len(pre.data) = 3
    /\ pre.data[2] = Earthquake
    /\ Len(self.data) = 2
    /\ self.data[1] = Placeholder

====
